---- MODULE Spec2Model ----
(***************************************************************************)
(* A model of the image geometry pipeline of pretty_maps_decor             *)
(* (src/main.py): add_margin, polycut and the batch loop of __main__.      *)
(*                                                                         *)
(* An image is a record [mode, size, px]: size = <<width, height>>, px a   *)
(* function from <<x, y>> (0-based, x < width, y < height) to a pixel, a    *)
(* tuple of channel values.  The file system is a set of directories and   *)
(* a function from <<directory, file name>> to the file's content.         *)
(***************************************************************************)
EXTENDS Integers, Sequences, FiniteSets, TLC

VARIABLES
    fs,        \* <<directory, file name>> -> content: Absent, Partial or an image
    dirs,      \* the directories that exist
    margin,    \* the last add_margin call: its arguments and what it returned
    pcall,     \* the last polycut call: arguments, intermediates and outcome
    prev,      \* the polycut call before it (name, directory, outcome)
    batch,     \* the __main__ loop: locations, position, attempted names
    calls      \* the number of polycut calls made so far

vars == <<fs, dirs, margin, pcall, prev, batch, calls>>

----------------------------------------------------------------------------
(* Bounds of the model *)

MaxSide == 2        \* add_margin inputs: sides 1..MaxSide
MaxMargin == 2      \* add_margin inputs: margins up to MaxMargin
NegMargin == 1      \* add_margin inputs: margins down to -NegMargin
MinDim == 11        \* polycut sources: sides MinDim..MaxDim
MaxDim == 13
MaxCalls == 2       \* polycut calls in one behaviour
RenderSide == 12    \* side of the square image the renderer saves

----------------------------------------------------------------------------
(* Images *)

ValueError == [raised |-> "ValueError"]

Grid(size) == (0 .. size[1] - 1) \X (0 .. size[2] - 1)

\* Image.new(mode, size, color): a 3-tuple colour given to an RGBA image gets
\* alpha 255; a negative side raises ValueError.
FillPixel(mode, color) ==
    IF mode = "RGBA" /\ Len(color) = 3 THEN color \o <<255>> ELSE color

ImageNew(mode, size, color) ==
    IF size[1] < 0 \/ size[2] < 0
    THEN ValueError
    ELSE [mode |-> mode, size |-> size,
          px |-> [p \in Grid(size) |-> FillPixel(mode, color)]]

\* A paste that takes the box as (top, left).
Paste_swapped(dst, im, box) ==
    [dst EXCEPT !.px = [p \in Grid(dst.size) |->
        LET q == <<p[1] - box[2], p[2] - box[1]>>
        IN IF q \in Grid(im.size) THEN im.px[q] ELSE dst.px[p]]]

\* result.paste(im, (left, top)) without a mask: the source pixels are copied
\* verbatim to the box, clipped to the destination.
Paste(dst, im, box) ==
    [dst EXCEPT !.px = [p \in Grid(dst.size) |->
        LET q == <<p[1] - box[1], p[2] - box[2]>>
        IN IF q \in Grid(im.size) THEN im.px[q] ELSE dst.px[p]]]

add_margin(pil_img, top, right, bottom, left, color) ==
    LET width == pil_img.size[1]
        height == pil_img.size[2]
        new_width == width + right + left
        new_height == height + top + bottom
        result == ImageNew(pil_img.mode, <<new_width, new_height>>, color)
    IN IF result = ValueError
       THEN ValueError
       ELSE Paste(result, pil_img, <<left, top>>)

\* A test image whose pixels are pairwise distinct: R = x, G = y, B = seed.
TestImage(mode, w, h, seed) ==
    [mode |-> mode, size |-> <<w, h>>,
     px |-> [p \in Grid(<<w, h>>) |->
               IF mode = "RGBA" THEN <<p[1], p[2], seed, 7>>
                                ELSE <<p[1], p[2], seed>>]]

----------------------------------------------------------------------------
(* add_margin as an operation *)

Margins == (0 - NegMargin) .. MaxMargin
Colors == {<<255, 255, 255>>, <<9, 9, 9>>}

\* The arguments of one add_margin call are drawn when the state is set up;
\* AddMarginCall applies the function to them.
InitMargin ==
    /\ fs = <<>>
    /\ dirs = {}
    /\ \E w \in 1 .. MaxSide, h \in 1 .. MaxSide, top \in Margins,
          right \in Margins, bottom \in Margins, left \in Margins,
          color \in Colors :
          margin = [called |-> FALSE, pil_img |-> TestImage("RGBA", w, h, 1),
                    top |-> top, right |-> right, bottom |-> bottom,
                    left |-> left, color |-> color, result |-> [kind |-> "none"]]
    /\ pcall = [called |-> FALSE]
    /\ prev = [called |-> FALSE]
    /\ batch = [pc |-> "off"]
    /\ calls = 0

AddMarginCall ==
    /\ ~margin.called
    /\ margin' = [margin EXCEPT
                    !.called = TRUE,
                    !.result = add_margin(margin.pil_img, margin.top, margin.right,
                                          margin.bottom, margin.left, margin.color)]
    /\ UNCHANGED <<fs, dirs, pcall, prev, batch, calls>>

NextMargin == AddMarginCall

SpecMargin == InitMargin /\ [][NextMargin]_vars

----------------------------------------------------------------------------
(* The file system *)

Absent == [kind |-> "absent"]
Partial == [kind |-> "partial"]      \* a truncated or half-written file
FileOf(im) == [kind |-> "image", image |-> im]

extensions == <<".png", ".jpeg", ".jpg">>

Names == {"a", "a_hex"}              \* the names polycut is called with
BatchNames == Names \cup {"b"}       \* the keys of locations.json
Directories == {"output", "missing"}
FileNames == {n \o extensions[i] : n \in BatchNames, i \in 1 .. 3}
                \cup {n \o "_hex.png" : n \in BatchNames}
Paths == Directories \X FileNames

\* os.path.join(directory, name) + suffix
Join(directory, name, suffix) == <<directory, name \o suffix>>

\* os.path.isfile(path), read in file system f
IsFile(f, path) == f[path] # Absent

----------------------------------------------------------------------------
(* polycut *)

req_width == 17
page_width == 20

Min(a, b) == IF a < b THEN a ELSE b
Abs(a) == IF a < 0 THEN 0 - a ELSE a

\* An extension list that prefers .jpg.
FindFile_jpgFirst(f, directory, name) ==
    LET order == <<3, 1, 2>>
        found == {i \in 1 .. 3 : IsFile(f, Join(directory, name, extensions[order[i]]))}
    IN IF found = {} THEN <<>>
       ELSE LET i == CHOOSE k \in found : \A j \in found : k <= j
            IN <<Join(directory, name, extensions[order[i]])>>

\* next((file_path + ext for ext in extensions if os.path.isfile(file_path + ext)), None):
\* <<path>> for the first extension whose file exists, <<>> for None.
FindFile(f, directory, name) ==
    LET found == {i \in 1 .. 3 : IsFile(f, Join(directory, name, extensions[i]))}
    IN IF found = {} THEN <<>>
       ELSE LET i == CHOOSE k \in found : \A j \in found : k <= j
            IN <<Join(directory, name, extensions[i])>>

\* convert("RGBA"): an RGB image gets alpha 255, an RGBA image is kept.
ConvertRGBA(im) ==
    IF im.mode = "RGBA" THEN im
    ELSE [mode |-> "RGBA", size |-> im.size,
          px |-> [p \in Grid(im.size) |-> im.px[p] \o <<255>>]]

\* Python's round() of the float n2 / 2: halves go to the even neighbour.
Round2(n2) ==
    IF n2 % 2 = 0 THEN n2 \div 2
    ELSE LET f == (n2 - 1) \div 2 IN IF f % 2 = 0 THEN f ELSE f + 1

\* Image.crop(box) with box = (x0, y0, x1, y1) given in halves: the
\* coordinates are rounded, the region is copied, pixels outside the image are 0.
Crop(im, box2) ==
    LET x0 == Round2(box2[1])
        y0 == Round2(box2[2])
        x1 == Round2(box2[3])
        y1 == Round2(box2[4])
        size == <<x1 - x0, y1 - y0>>
    IN [mode |-> im.mode, size |-> size,
        px |-> [p \in Grid(size) |->
                  LET q == <<p[1] + x0, p[2] + y0>>
                  IN IF q \in Grid(im.size) THEN im.px[q] ELSE <<0, 0, 0, 0>>]]

\* Lines 60-65: the square-crop step.
SquareCrop(im) ==
    LET width == im.size[1]
        height == im.size[2]
    IN IF width > height
       THEN \* min_x = (width - height) / 2; box (min_x, 0, min_x + height, height)
            Crop(im, <<width - height, 0, width - height + 2 * height, 2 * height>>)
       ELSE im

\* A padding that forgets to halve the bleed.
padding_factor_noHalf(width) ==
    (width * (page_width - req_width)) \div req_width

\* int(np.floor((width * (page_width / req_width - 1.0)) / 2.0)).  The double
\* page_width / req_width - 1.0 exceeds 3/17 by less than 1e-16, so for every
\* width below 10^13 the floor is that of the exact quotient.
padding_factor(width) ==
    (width * (page_width - req_width)) \div (2 * req_width)

\* Lines 79-88: the mask of the hexagon with vertices
\*   (r cos(i pi/3) + W/2, r sin(i pi/3) + 0.89 H/2), i = 0..5,
\* r = dim / sqrt(3) when wide, dim / 2 otherwise, drawn with fill = 1 and
\* outline = 1 on a grid of zeros: pixel (x, y) is 1 iff it lies in the closed
\* hexagon, |dy| <= r sqrt(3)/2 and sqrt(3) |dx| + |dy| <= sqrt(3) r, decided
\* in integers with dx = (2x - W)/2 and dy = (200y - 89H)/200.
InHexagon(p, size, dim, wide) ==
    LET dx2 == Abs(2 * p[1] - size[1])
        dy200 == Abs(200 * p[2] - 89 * size[2])
    IN IF wide
       THEN /\ dy200 <= 100 * dim
            /\ 30000 * dx2 * dx2 <= (200 * dim - dy200) * (200 * dim - dy200)
       ELSE /\ dy200 * dy200 <= 7500 * dim * dim
            /\ dx2 <= dim
            /\ dy200 * dy200 <= 30000 * (dim - dx2) * (dim - dx2)

HexMask(size, dim, wide) ==
    [p \in Grid(size) |-> IF InHexagon(p, size, dim, wide) THEN 1 ELSE 0]

\* An alpha channel that takes the mask value unscaled.
ApplyAlpha_unscaled(im_padded, mask) ==
    [mode |-> "RGBA", size |-> im_padded.size,
     px |-> [p \in Grid(im_padded.size) |->
               SubSeq(im_padded.px[p], 1, 3) \o <<mask[p]>>]]

\* Lines 90-94: RGB from the padded image, alpha = mask * 255 as uint8.
ApplyAlpha(im_padded, mask) ==
    [mode |-> "RGBA", size |-> im_padded.size,
     px |-> [p \in Grid(im_padded.size) |->
               SubSeq(im_padded.px[p], 1, 3) \o <<(mask[p] * 255) % 256>>]]

\* Lines 59-94: everything polycut computes from the file it opened.
Pipeline(source) ==
    LET opened == ConvertRGBA(source)
        dim == Min(opened.size[1], opened.size[2])
        im == SquareCrop(opened)
        width == im.size[1]
        height == im.size[2]
        wide == width > height
        pf == padding_factor(width)
        im_padded == add_margin(im, pf, pf, pf, pf, <<255, 255, 255>>)
        mask == HexMask(im_padded.size, dim, wide)
    IN [dim |-> dim, im |-> im, wide |-> wide, padding_factor |-> pf,
        im_padded |-> im_padded, mask |-> mask,
        new_im |-> ApplyAlpha(im_padded, mask)]

----------------------------------------------------------------------------
(* polycut as an operation *)

\* How the write of the output file goes: it succeeds; open() fails and the
\* file is untouched; the write fails after open(..., "w+b") truncated the
\* file, which Image.save then leaves behind, or removes if it created it.
IOOutcomes == {"ok", "open_fails", "write_fails", "write_fails_cleanup"}

NoRun == [kind |-> "none"]

Summary(call, f) ==
    IF ~call.called THEN [called |-> FALSE]
    ELSE [called |-> TRUE, name |-> call.name, directory |-> call.directory,
          status |-> call.status, found |-> call.found,
          out |-> f[Join(call.directory, call.name, "_hex.png")]]

\* The output path of a polycut that overwrites its source name.
OutputPath_overSource(directory, name) == Join(directory, name, ".png")

\* os.path.join(output_dir, name + "_hex.png")
OutputPath(directory, name) == Join(directory, name, "_hex.png")

\* A not-found branch that creates the directory before giving up.
NotFound_mkdir(base) ==
    /\ pcall' = base @@ [status |-> "notfound", run |-> NoRun]
    /\ dirs' = dirs \cup {base.directory}
    /\ fs' = fs

\* Lines 55-57: log the error and return; nothing is touched.
NotFound(base) ==
    /\ pcall' = base @@ [status |-> "notfound", run |-> NoRun]
    /\ UNCHANGED <<fs, dirs>>

\* polycut(name, directory), lines 50-102, with the outcome io of the write.
\* status: "notfound" (line 57), "ok" (line 102) or "raised" (an exception
\* leaves the function).
polycut(name, directory, io) ==
    LET found == FindFile(fs, directory, name)
        base == [called |-> TRUE, name |-> name, directory |-> directory,
                 found |-> found, fsBefore |-> fs, dirsBefore |-> dirs]
        out == OutputPath(directory, name)
    IN
    /\ prev' = Summary(pcall, fs)
    /\ IF found = <<>>
       THEN NotFound(base)
       ELSE IF fs[found[1]] = Partial
       THEN \* Image.open(...).convert raises on a truncated file
            /\ pcall' = base @@ [status |-> "raised", run |-> NoRun]
            /\ UNCHANGED <<fs, dirs>>
       ELSE LET run == Pipeline(fs[found[1]].image)
            IN \* lines 96-99: the directory of a file just found exists, so
               \* os.makedirs creates nothing here
               /\ dirs' = dirs \cup {directory}
               /\ CASE io = "ok" ->
                        /\ fs' = [fs EXCEPT ![out] = FileOf(run.new_im)]
                        /\ pcall' = base @@ [status |-> "ok", run |-> run]
                    [] io = "open_fails" ->
                        /\ fs' = fs
                        /\ pcall' = base @@ [status |-> "raised", run |-> run]
                    [] io = "write_fails" ->
                        /\ fs' = [fs EXCEPT ![out] = Partial]
                        /\ pcall' = base @@ [status |-> "raised", run |-> run]
                    [] io = "write_fails_cleanup" ->
                        /\ fs' = [fs EXCEPT ![out] =
                                    IF IsFile(fs, out) THEN Partial ELSE Absent]
                        /\ pcall' = base @@ [status |-> "raised", run |-> run]

PolycutCall ==
    /\ calls < MaxCalls
    /\ calls' = calls + 1
    /\ \E name \in Names, directory \in Directories, io \in IOOutcomes :
          polycut(name, directory, io)
    /\ UNCHANGED <<margin, batch>>

Dims == MinDim .. MaxDim

\* The source files of "a" in directory "output": any subset of the three
\* extensions, the .png an RGBA image and the others RGB, told apart by their
\* blue channel.
InitCut ==
    /\ dirs = {"output"}
    /\ \E w \in Dims, h \in Dims, have \in SUBSET (1 .. 3) :
          fs = [p \in Paths |->
                  IF \E i \in have : p = Join("output", "a", extensions[i])
                  THEN LET i == CHOOSE k \in have : p = Join("output", "a", extensions[k])
                       IN FileOf(TestImage(IF i = 1 THEN "RGBA" ELSE "RGB", w, h, i))
                  ELSE Absent]
    /\ margin = [called |-> FALSE]
    /\ pcall = [called |-> FALSE]
    /\ prev = [called |-> FALSE]
    /\ batch = [pc |-> "off"]
    /\ calls = 0

NextCut == PolycutCall

SpecCut == InitCut /\ [][NextCut]_vars

----------------------------------------------------------------------------
(* The batch loop of __main__, lines 185-191 *)

output_dir == "output"

\* The renderer (prettymaps plot, then plt.savefig) is outside the program:
\* it raises, or the write of <name>.png fails, or the file is written.
RenderOutcomes == {"ok", "render_fails", "io_fails"}

\* load_locations returns a dict: its keys are distinct, in file order.
Locations ==
    {q \in UNION {[1 .. k -> BatchNames] : k \in 0 .. Cardinality(BatchNames)} :
        \A i \in DOMAIN q, j \in DOMAIN q : q[i] = q[j] => i = j}

InitBatch ==
    /\ dirs \in {{}, {output_dir}}
    /\ fs = [p \in Paths |-> Absent]
    /\ margin = [called |-> FALSE]
    /\ pcall = [called |-> FALSE]
    /\ prev = [called |-> FALSE]
    /\ calls = 0
    /\ \E loc_names \in Locations :
          batch = [pc |-> IF loc_names = <<>> THEN "done" ELSE "save_images",
                   loc_names |-> loc_names, i |-> 1, attempted |-> {}]

\* save_images(loc, name, output_dir), lines 117-161.
save_images(name, outcome) ==
    LET path == Join(output_dir, name, ".png")
    IN CASE outcome = "render_fails" ->     \* plot(...) raises, line 119
              /\ UNCHANGED <<fs, dirs>>
              /\ batch' = [batch EXCEPT !.pc = "crashed",
                                        !.attempted = @ \cup {name}]
         [] outcome = "io_fails" ->         \* plt.savefig raises, line 160
              /\ dirs' = dirs \cup {output_dir}
              /\ fs' = [fs EXCEPT ![path] = Partial]
              /\ batch' = [batch EXCEPT !.pc = "crashed",
                                        !.attempted = @ \cup {name}]
         [] outcome = "ok" ->
              /\ dirs' = dirs \cup {output_dir}
              /\ fs' = [fs EXCEPT ![path] =
                          FileOf(TestImage("RGBA", RenderSide, RenderSide, batch.i))]
              /\ batch' = [batch EXCEPT !.pc = "polycut",
                                        !.attempted = @ \cup {name}]

BatchSaveImages ==
    /\ batch.pc = "save_images"
    /\ \E outcome \in RenderOutcomes :
          save_images(batch.loc_names[batch.i], outcome)
    /\ UNCHANGED <<margin, pcall, prev, calls>>

\* polycut(name, output_dir), line 191; an exception leaves the loop, a
\* return goes on to the next location.
BatchPolycut ==
    /\ batch.pc = "polycut"
    /\ \E io \in IOOutcomes : polycut(batch.loc_names[batch.i], output_dir, io)
    /\ batch' = IF pcall'.status = "raised"
                THEN [batch EXCEPT !.pc = "crashed"]
                ELSE IF batch.i = Len(batch.loc_names)
                THEN [batch EXCEPT !.pc = "done"]
                ELSE [batch EXCEPT !.pc = "save_images", !.i = @ + 1]
    /\ UNCHANGED <<margin, calls>>

NextBatch == BatchSaveImages \/ BatchPolycut

SpecBatch == InitBatch /\ [][NextBatch]_vars

\* C9: a failure local to one image does not abort the others: when the loop
\* has ended, by running out of locations or by an exception, every location
\* of the list has been processed.
C9_BatchProcessesEveryLocation ==
    batch.pc \in {"done", "crashed"} =>
        \A k \in 1 .. Len(batch.loc_names) : batch.loc_names[k] \in batch.attempted

----------------------------------------------------------------------------
(* Claims about polycut, checked under SpecCut *)

OutFile == fs[<<pcall.directory, pcall.name \o "_hex.png">>]
OutFileBefore == pcall.fsBefore[<<pcall.directory, pcall.name \o "_hex.png">>]

Candidates == {<<pcall.directory, pcall.name \o e>> : e \in {".png", ".jpeg", ".jpg"}}
Existing == {c \in Candidates : pcall.fsBefore[c] # Absent}

Ran == pcall.called /\ pcall.run # NoRun
Source == pcall.fsBefore[pcall.found[1]].image

\* C2: when a source file is found and polycut returns normally, the file
\* <directory>/<name>_hex.png exists with size (w + 2 pf, h + 2 pf), (w, h) the
\* size after the square-crop step and pf = floor(w (20/17 - 1) / 2); a source
\* that is not wider than high is not cropped, so an N x N source gives
\* N + 2 pf(N) on each axis.
C2_OutputDimensions ==
    (pcall.called /\ pcall.found # <<>> /\ pcall.status # "raised") =>
        /\ pcall.status = "ok"
        /\ OutFile.kind = "image"
        /\ LET w == pcall.run.im.size[1]
               h == pcall.run.im.size[2]
           IN \E pf \in 0 .. w :
                 /\ 34 * pf <= 3 * w /\ 3 * w < 34 * (pf + 1)
                 /\ OutFile.image.size = <<w + 2 * pf, h + 2 * pf>>
                 /\ DOMAIN OutFile.image.px = Grid(<<w + 2 * pf, h + 2 * pf>>)
        /\ Source.size[1] <= Source.size[2] => pcall.run.im.size = Source.size

C2_Witness ==
    /\ pcall.called /\ pcall.status = "ok"
    /\ Source.size = <<12, 12>>
    /\ OutFile.kind = "image"
    /\ OutFile.image.size = <<14, 14>>

\* C3: when none of <name>.png, <name>.jpeg, <name>.jpg exists in the
\* directory, polycut returns normally and files and directories are as before.
C3_NotFoundLeavesNoTrace ==
    (pcall.called /\ Existing = {}) =>
        /\ pcall.status = "notfound"
        /\ fs = pcall.fsBefore
        /\ dirs = pcall.dirsBefore

C3_Witness ==
    /\ pcall.called /\ Existing = {}
    /\ pcall.directory = "missing"
    /\ pcall.directory \notin dirs
    /\ pcall.status = "notfound"

ExtRank(path) ==
    CHOOSE i \in 1 .. 3 :
        path = <<pcall.directory, pcall.name \o <<".png", ".jpeg", ".jpg">>[i]>>

\* C4: the source is the existing candidate with the earliest extension in
\* the order .png, .jpeg, .jpg, that file is the one read, and the call is
\* aborted as not found only when no candidate exists.
C4_FirstExtensionWins ==
    pcall.called =>
        /\ (pcall.status = "notfound") <=> (Existing = {})
        /\ (pcall.found = <<>>) <=> (Existing = {})
        /\ Existing # {} =>
              /\ pcall.found[1] \in Existing
              /\ \A c \in Existing : ExtRank(pcall.found[1]) <= ExtRank(c)
        /\ (Ran /\ pcall.name = "a") =>
              LET pf == pcall.run.padding_factor
              IN pcall.run.new_im.px[<<pf, pf>>][3] = ExtRank(pcall.found[1])

C4_Witness ==
    /\ pcall.called /\ pcall.status = "ok" /\ pcall.name = "a"
    /\ Cardinality(Existing) = 2
    /\ pcall.found = << <<"output", "a.jpeg">> >>

\* C5: every pixel of the written image has the R, G, B of the padded image
\* at that position and alpha = mask value * 255: 255 where the mask is 1 and 0
\* where it is 0.
C5_OnlyAlphaDiffers ==
    (pcall.called /\ pcall.status = "ok") =>
        /\ OutFile.kind = "image"
        /\ OutFile.image.size = pcall.run.im_padded.size
        /\ \A p \in Grid(pcall.run.im_padded.size) :
              LET o == OutFile.image.px[p]
                  q == pcall.run.im_padded.px[p]
                  m == pcall.run.mask[p]
              IN /\ o[1] = q[1] /\ o[2] = q[2] /\ o[3] = q[3]
                 /\ m \in {0, 1}
                 /\ o[4] = m * 255
                 /\ (m = 1 => o[4] = 255) /\ (m = 0 => o[4] = 0)

C5_Witness ==
    /\ pcall.called /\ pcall.status = "ok"
    /\ pcall.run.padding_factor = 1
    /\ \E p \in Grid(pcall.run.im_padded.size) :
          OutFile.image.px[p][4] = 255 /\ pcall.run.im_padded.px[p][4] = 7
    /\ OutFile.image.px[<<0, 0>>][4] = 0

SameAsPrev ==
    /\ pcall.called /\ prev.called
    /\ pcall.status = "ok" /\ prev.status = "ok"
    /\ pcall.name = prev.name /\ pcall.directory = prev.directory

\* C6: two polycut calls in a row on the same name and directory resolve the
\* same source file and leave the same content in <directory>/<name>_hex.png.
C6_RerunIsIdempotent ==
    SameAsPrev =>
        /\ pcall.found = prev.found
        /\ OutFile = prev.out
        /\ OutFile = FileOf(pcall.run.new_im)

C6_Witness ==
    /\ SameAsPrev
    /\ pcall.name = "a"
    /\ pcall.run.padding_factor = 1
    /\ OutFile.kind = "image"

\* C8: when the write of the output fails, the failure is raised and
\* <directory>/<name>_hex.png is either the full new file or as it was before.
C8_FailedWriteLeavesFileIntact ==
    (Ran /\ pcall.status = "raised") =>
        \/ OutFile = OutFileBefore
        \/ OutFile = FileOf(pcall.run.new_im)

\* C10: a source wider than high is cropped to dim x dim, dim = min(width,
\* height); any other source keeps its size; so the cropped image is never
\* wider than high and the factor 1/2 is always the one used.
C10_CropIsSquare ==
    Ran =>
        LET dim == Min(Source.size[1], Source.size[2])
        IN /\ pcall.run.dim = dim
           /\ Source.size[1] > Source.size[2] => pcall.run.im.size = <<dim, dim>>
           /\ Source.size[1] <= Source.size[2] => pcall.run.im.size = Source.size
           /\ pcall.run.im.size[1] <= pcall.run.im.size[2]
           /\ ~pcall.run.wide

----------------------------------------------------------------------------
(* Claims about add_margin, checked under SpecMargin *)

ValidMargins ==
    margin.top >= 0 /\ margin.right >= 0 /\ margin.bottom >= 0 /\ margin.left >= 0

\* C1: for margins top, right, bottom, left >= 0, add_margin returns an image
\* of size (w + left + right, h + top + bottom) whose pixel at (x + left, y + top)
\* is the input's pixel at (x, y), and whose every other pixel is the fill colour.
C1_AddMarginSizeAndPixels ==
    (margin.called /\ ValidMargins) =>
        LET im == margin.pil_img
            res == margin.result
            pasted == {<<p[1] + margin.left, p[2] + margin.top>> : p \in Grid(im.size)}
        IN /\ res # ValueError
           /\ res.mode = im.mode
           /\ res.size = <<im.size[1] + margin.left + margin.right,
                           im.size[2] + margin.top + margin.bottom>>
           /\ DOMAIN res.px = Grid(res.size)
           /\ \A p \in Grid(im.size) :
                 res.px[<<p[1] + margin.left, p[2] + margin.top>>] = im.px[p]
           /\ \A p \in Grid(res.size) \ pasted :
                 res.px[p] = margin.color \o <<255>>

C1_Witness ==
    /\ margin.called /\ ValidMargins
    /\ margin.left = 1 /\ margin.top = 2 /\ margin.right = 0 /\ margin.bottom = 1
    /\ margin.pil_img.size = <<2, 1>>
    /\ margin.result # ValueError

\* C7: a precondition violation of add_margin (a negative margin, or resulting
\* dimensions that are not positive) fails fast: the call raises and returns no image.
C7_NegativeMarginFailsFast ==
    (margin.called /\ ~ValidMargins) => margin.result = ValueError

====
